---- MODULE Spec2Model ----
(***************************************************************************)
(* A model of yara_scanner.py: load rules -> enumerate targets -> match    *)
(* each target -> aggregate -> report.  The matching engine (yara) and the *)
(* file system are the environment: what they return is drawn from bounded *)
(* sets; everything the script itself computes is translated from its      *)
(* code.                                                                   *)
(***************************************************************************)
EXTENDS Integers, Sequences, FiniteSets, TLC

VARIABLES
    args,          \* the parsed command line (argparse namespace)
    bundled_rules, \* the file system at script_dir / 'rules'
    walk,          \* the scan directory: its paths in the order rglob yields them
    manifest,      \* the JSON manifest: scan_results['packages']
    pc,            \* main's position
    rules_paths,   \* main's local rules_paths
    rules,         \* main's local rules (the compiled rule set, or None)
    files,         \* the scan function's list of targets
    idx,           \* number of loop iterations of the scan function done so far
    scanned,       \* scan_files_from_json's progress counter
    total_files,   \* the total the scan function announces
    yara_results,  \* the report under construction / returned
    calls,         \* history: the targets handed to scan_file, with what it returned
    out,           \* everything printed or written so far, in order
    high_count,    \* main's local high_count
    exit_code,     \* the process exit status, NoExit while running
    probe          \* argument and result of a function applied on its own

vars == <<args, bundled_rules, walk, manifest, pc, rules_paths, rules, files, idx,
          scanned, total_files, yara_results, calls, out, high_count, exit_code, probe>>

----------------------------------------------------------------------------
(* Bounds of the model *)

MaxRulePaths == 2
MaxFiles == 2
MaxPatterns == 2
MaxEntries == 2
MaxLongEntries == 11
MaxMatches == 2
MaxStrings == 11

(* Constants of the program *)

StringsLimit == 10
ProgressEvery == 10

NoExit == -1
None == [none |-> TRUE]

Min(a, b) == IF a < b THEN a ELSE b

\* Python's dict.get(key, default)
Get(d, key, default) == IF key \in DOMAIN d THEN d[key] ELSE default

\* Python's list(dict.fromkeys(s)): first occurrences, order kept
RECURSIVE DedupFrom(_, _)
DedupFrom(s, acc) ==
    IF s = <<>> THEN acc
    ELSE IF \E i \in DOMAIN acc : acc[i] = Head(s)
         THEN DedupFrom(Tail(s), acc)
         ELSE DedupFrom(Tail(s), Append(acc, Head(s)))

DedupKeepOrderKeepAll(s) == s
DedupKeepOrder(s) == DedupFrom(s, <<>>)

RECURSIVE Concat(_)
Concat(ss) == IF ss = <<>> THEN <<>> ELSE Head(ss) \o Concat(Tail(ss))

RECURSIVE SumLen(_)
SumLen(ss) == IF ss = <<>> THEN 0 ELSE Len(Head(ss)) + SumLen(Tail(ss))

----------------------------------------------------------------------------
(* Rule sources.  A rule file is the path dir/stem+suffix; a rule-source    *)
(* path is missing, a file, or a directory with its entries in scandir      *)
(* order.  Directory 0 is the bundled script_dir/rules, directory i >= 1 is  *)
(* where the i-th --rules argument lives.                                   *)

RuleFile(d, stem, suffix) == [dir |-> d, stem |-> stem, suffix |-> suffix]
MissingPath == [kind |-> "missing"]
FilePath(f) == [kind |-> "file", file |-> f]
DirPath(d, names) ==
    [kind |-> "dir", dir |-> d,
     entries |-> [i \in DOMAIN names |-> RuleFile(d, names[i][1], names[i][2])]]

RuleSuffixes == {".yar", ".yara"}

\* Path.glob('*' + suffix) on a directory
Glob(path, suffix) == SelectSeq(path.entries, LAMBDA f : f.suffix = suffix)

\* rule_files[namespace] = str(path)
SetRuleFileFirstWins(rule_files, namespace, path) ==
    [k \in DOMAIN rule_files \cup {namespace} |->
        IF k \in DOMAIN rule_files THEN rule_files[k] ELSE path]
SetRuleFile(rule_files, namespace, path) ==
    [k \in DOMAIN rule_files \cup {namespace} |->
        IF k = namespace THEN path ELSE rule_files[k]]

\* for rule_file in path.glob(...): rule_files[rule_file.stem] = str(rule_file)
RECURSIVE PutAll(_, _)
PutAll(rule_files, fs) ==
    IF fs = <<>> THEN rule_files
    ELSE PutAll(SetRuleFile(rule_files, Head(fs).stem, Head(fs)), Tail(fs))

\* load_rules, one iteration of `for path in rules_paths`
LoadPath(rule_files, path) ==
    IF path.kind = "missing" THEN rule_files
    ELSE IF path.kind = "file" /\ path.file.suffix \in RuleSuffixes
         THEN SetRuleFile(rule_files, path.file.stem, path.file)
    ELSE IF path.kind = "dir"
         THEN PutAll(PutAll(rule_files, Glob(path, ".yar")), Glob(path, ".yara"))
    ELSE rule_files

\* load_rules, the whole loop: the namespace -> path mapping
RECURSIVE LoadRuleFiles(_, _)
LoadRuleFiles(rule_files, paths) ==
    IF paths = <<>> THEN rule_files
    ELSE LoadRuleFiles(LoadPath(rule_files, Head(paths)), Tail(paths))

\* load_rules: compiled is what yara.compile does with the mapping
\* ("ok" or "SyntaxError"); the result is None, the compiled rule set, or
\* sys.exit(1)
LoadRulesNoEmptyCheck(paths, compiled) ==
    LET rule_files == LoadRuleFiles(<<>>, paths)
    IN  IF compiled = "SyntaxError"
        THEN [exit |-> 1, rules |-> None,
              log |-> <<"loading_rule_files", "error_compiling">>]
        ELSE [exit |-> NoExit, rules |-> [filepaths |-> rule_files],
              log |-> <<"loading_rule_files">>]
LoadRules(paths, compiled) ==
    LET rule_files == LoadRuleFiles(<<>>, paths)
    IN  IF DOMAIN rule_files = {}
        THEN [exit |-> NoExit, rules |-> None,
              log |-> <<"warn_no_rules_found">>]
        ELSE IF compiled = "SyntaxError"
        THEN [exit |-> 1, rules |-> None,
              log |-> <<"loading_rule_files", "error_compiling">>]
        ELSE [exit |-> NoExit, rules |-> [filepaths |-> rule_files],
              log |-> <<"loading_rule_files">>]

\* main: rules_paths = list(args.rules), the bundled directory inserted at 0
CollectRulePaths(a, bundled) ==
    IF ~a.no_bundled_rules /\ bundled.kind # "missing"
    THEN <<bundled>> \o a.rules
    ELSE a.rules

----------------------------------------------------------------------------
(* scan_file.  The engine's answer for one target is either a raised        *)
(* exception or a list of match objects; a matched string is a StringMatch  *)
(* object or (older engines) a plain tuple, which has no .identifier.       *)

StringMatch(id, offsets) == [cls |-> "StringMatch", identifier |-> id, instances |-> offsets]
LegacyTuple(id) == [cls |-> "tuple", identifier |-> id]

\* the dict appended to match_data['strings']
StringEntry(sm) ==
    [identifier |-> sm.identifier,
     offset |-> IF sm.instances # <<>> THEN sm.instances[1] ELSE 0]

\* match.strings[:10]
FirstStringsAll(strings) == strings
FirstStrings(strings) == SubSeq(strings, 1, Min(StringsLimit, Len(strings)))

\* match_data for one engine match; ok is FALSE when building it raised
MatchData(m) ==
    LET taken == FirstStrings(m.strings)
    IN  IF \E i \in DOMAIN taken : taken[i].cls # "StringMatch"
        THEN [ok |-> FALSE]
        ELSE [ok |-> TRUE,
              data |-> [rule |-> m.rule, namespace |-> m.namespace,
                        tags |-> m.tags, meta |-> m.meta,
                        strings |-> [i \in DOMAIN taken |-> StringEntry(taken[i])]]]

RECURSIVE NormaliseFrom(_, _)
NormaliseFrom(results, acc) ==
    IF results = <<>> THEN [matches |-> acc, warning |-> "none", raised |-> FALSE]
    ELSE LET md == MatchData(Head(results))
         IN  IF md.ok THEN NormaliseFrom(Tail(results), Append(acc, md.data))
             ELSE [matches |-> acc, warning |-> "warn_error_scanning", raised |-> FALSE]

\* scan_file: the returned list, the warning printed, and whether an
\* exception leaves the function
ScanFileNoCatch(outcome) ==
    IF outcome.raise # "none"
    THEN [matches |-> <<>>, warning |-> "none", raised |-> TRUE]
    ELSE NormaliseFrom(outcome.results, <<>>)
ScanFile(outcome) ==
    IF outcome.raise = "TimeoutError"
    THEN [matches |-> <<>>, warning |-> "warn_timeout", raised |-> FALSE]
    ELSE IF outcome.raise = "Error"
    THEN [matches |-> <<>>, warning |-> "warn_yara_error", raised |-> FALSE]
    ELSE IF outcome.raise = "Exception"
    THEN [matches |-> <<>>, warning |-> "warn_error_scanning", raised |-> FALSE]
    ELSE NormaliseFrom(outcome.results, <<>>)

----------------------------------------------------------------------------
(* emit_github_annotations.  Metadata values are the scalars a rule may     *)
(* declare: strings, and non-strings (integers, booleans), which the model  *)
(* writes as the one value NonStr.                                          *)

NonStr == "<int>"
IsStr(v) == v # NonStr

\* str.upper(), on the strings the model uses
Upper(s) ==
    CASE s = "critical" -> "CRITICAL"
      [] s = "high"     -> "HIGH"
      [] s = "medium"   -> "MEDIUM"
      [] s = "low"      -> "LOW"
      [] s = "unknown"  -> "UNKNOWN"
      [] OTHER          -> s

\* the level of the annotation printed for a severity
Level(severity) ==
    IF severity = "critical" \/ severity = "high" THEN "error"
    ELSE IF severity = "medium" THEN "warning"
    ELSE "notice"

\* the line printed for one match of one result; severity.upper() raises
\* AttributeError when severity is not a string
Annotation(result, match) ==
    LET file_path   == Get(result, "file", "unknown")
        package     == Get(result, "package", "")
        rule        == Get(match, "rule", "unknown")
        meta        == Get(match, "meta", <<>>)
        severity    == Get(meta, "severity", "unknown")
        description == Get(meta, "description", "")
        category    == Get(meta, "category", "")
        message     == (IF package # "" THEN <<package>> ELSE <<>>)
                       \o <<file_path, rule>>
                       \o (IF description # "" THEN <<description>> ELSE <<>>)
    IN  IF IsStr(severity)
        THEN [ok |-> TRUE, high |-> Level(severity) = "error",
              line |-> [kind |-> "annotation", level |-> Level(severity),
                        title |-> <<Upper(severity), category>>, message |-> message]]
        ELSE [ok |-> FALSE]

\* the (result, match) pairs in the order the two nested loops visit them
RECURSIVE MatchPairs(_)
MatchPairs(results) ==
    IF results = <<>> THEN <<>>
    ELSE LET r  == Head(results)
             ms == Get(r, "matches", <<>>)
         IN  [i \in DOMAIN ms |-> [result |-> r, match |-> ms[i]]] \o MatchPairs(Tail(results))

RECURSIVE EmitFrom(_, _, _)
EmitFrom(pairs, printed, count) ==
    IF pairs = <<>> THEN [printed |-> printed, count |-> count, raised |-> FALSE]
    ELSE LET a == Annotation(Head(pairs).result, Head(pairs).match)
         IN  IF a.ok
             THEN EmitFrom(Tail(pairs), Append(printed, a.line),
                           IF a.high THEN count + 1 ELSE count)
             ELSE [printed |-> printed, count |-> count, raised |-> TRUE]

\* emit_github_annotations: the lines printed, the count returned, and
\* whether an exception leaves the function instead
EmitGithubAnnotations(results) == EmitFrom(MatchPairs(Get(results, "results", <<>>)), <<>>, 0)

----------------------------------------------------------------------------
(* Targets.  A path under the scan directory is a regular file or a         *)
(* directory and has an extension; a manifest names files by their path     *)
(* components.                                                              *)

TreeFile(i) == [id |-> i, is_file |-> TRUE, ext |-> IF i % 2 = 1 THEN "js" ELSE "html"]
TreeDir == [id |-> 0, is_file |-> FALSE, ext |-> "js"]

\* whether a glob pattern matches a path's name
PatternMatches(pattern, path) ==
    CASE pattern = "*"      -> TRUE
      [] pattern = "*.js"   -> path.ext = "js"
      [] pattern = "*.html" -> path.ext = "html"
      [] OTHER              -> FALSE

\* dir_path.rglob(pattern): the matching paths, in the order the walk yields them
RGlob(w, pattern) == SelectSeq(w, LAMBDA path : PatternMatches(pattern, path))

\* scan_directory: the list of targets
CollectFiles(w, include_patterns) ==
    LET found == IF include_patterns # <<>>
                 THEN DedupKeepOrder(Concat([i \in DOMAIN include_patterns |->
                                                RGlob(w, include_patterns[i])]))
                 ELSE RGlob(w, "*")
    IN  SelectSeq(found, LAMBDA f : f.is_file)

BasePath == <<"base">>
OnDisk == {<<"base", "node_modules", "x">>, <<"base", "node_modules", "y">>}

\* full_path for a manifest entry's 'file'
FullPath(file_path) ==
    IF Len(file_path) >= 2 /\ file_path[1] = "node_modules"
    THEN BasePath \o file_path
    ELSE BasePath \o <<"node_modules">> \o file_path

\* full_path.exists()
ExistsAlways(full_path) == TRUE
Exists(full_path) == full_path \in OnDisk

\* the (package, executable) pairs in the order the two nested loops visit them
RECURSIVE ManifestEntries(_)
ManifestEntries(packages) ==
    IF packages = <<>> THEN <<>>
    ELSE LET pkg == Head(packages)
             fs  == Get(pkg, "files", <<>>)
         IN  [i \in DOMAIN fs |-> [package |-> pkg, executable |-> fs[i]]]
             \o ManifestEntries(Tail(packages))

\* total_files = sum(len(pkg.get('files', [])) for pkg in packages)
RECURSIVE TotalFiles(_)
TotalFiles(packages) ==
    IF packages = <<>> THEN 0
    ELSE Len(Get(Head(packages), "files", <<>>)) + TotalFiles(Tail(packages))

EmptyResults == [totalScanned |-> 0, totalMatches |-> 0, filesWithMatches |-> 0, results |-> <<>>]

\* the progress line, when the condition on the counter holds
Progress(n, total) ==
    IF n % ProgressEvery = 0 \/ n = total
    THEN <<[kind |-> "progress", n |-> n, total |-> total]>>
    ELSE <<>>

\* the "[!]" lines printed for a target's matches
MatchLines(matches) ==
    [i \in DOMAIN matches |->
        [kind |-> "match_line", rule |-> matches[i].rule,
         severity |-> Get(Get(matches[i], "meta", <<>>), "severity", "unknown")]]

Warning(sf) == IF sf.warning = "none" THEN <<>> ELSE <<[kind |-> sf.warning]>>

\* scan_files_from_json: the counters and result list after one scanned target
AccumulateJsonCountOnce(yr, entry, matches) ==
    IF matches # <<>>
    THEN [totalScanned     |-> yr.totalScanned + 1,
          totalMatches     |-> yr.totalMatches + 1,
          filesWithMatches |-> yr.filesWithMatches + 1,
          results          |-> Append(yr.results,
                                [file |-> entry.executable.file,
                                 package |-> Get(entry.package, "package", "unknown"),
                                 matches |-> matches])]
    ELSE [yr EXCEPT !.totalScanned = @ + 1]
AccumulateJson(yr, entry, matches) ==
    IF matches # <<>>
    THEN [totalScanned     |-> yr.totalScanned + 1,
          totalMatches     |-> yr.totalMatches + Len(matches),
          filesWithMatches |-> yr.filesWithMatches + 1,
          results          |-> Append(yr.results,
                                [file |-> entry.executable.file,
                                 package |-> Get(entry.package, "package", "unknown"),
                                 matches |-> matches])]
    ELSE [yr EXCEPT !.totalScanned = @ + 1]

\* scan_directory: the counters and result list after one scanned target
AccumulateDirCountInElse(yr, file_path, matches) ==
    IF matches # <<>>
    THEN [totalScanned     |-> yr.totalScanned,
          totalMatches     |-> yr.totalMatches + Len(matches),
          filesWithMatches |-> yr.filesWithMatches + 1,
          results          |-> Append(yr.results, [file |-> file_path.id, matches |-> matches])]
    ELSE [yr EXCEPT !.totalScanned = @ + 1]
AccumulateDir(yr, file_path, matches) ==
    IF matches # <<>>
    THEN [totalScanned     |-> yr.totalScanned + 1,
          totalMatches     |-> yr.totalMatches + Len(matches),
          filesWithMatches |-> yr.filesWithMatches + 1,
          results          |-> Append(yr.results, [file |-> file_path.id, matches |-> matches])]
    ELSE [yr EXCEPT !.totalScanned = @ + 1]

----------------------------------------------------------------------------
(* main and the two scan functions, step by step *)

Exit(code, lines) ==
    /\ pc' = "exited"
    /\ exit_code' = code
    /\ out' = out \o lines

\* main, from parse_args to the check of rules_paths
MainCollect ==
    /\ pc = "start"
    /\ IF ~args.input /\ ~args.dir
       THEN /\ Exit(2, <<[kind |-> "usage_error"]>>)
            /\ UNCHANGED rules_paths
       ELSE LET paths == CollectRulePaths(args, bundled_rules)
            IN  /\ rules_paths' = paths
                /\ IF paths = <<>>
                   THEN Exit(1, <<[kind |-> "error_no_rules_specified"]>>)
                   ELSE /\ pc' = "load_rules"
                        /\ UNCHANGED <<exit_code, out>>
    /\ UNCHANGED <<args, bundled_rules, walk, manifest, rules, files, idx, scanned,
                   total_files, yara_results, calls, high_count, probe>>

\* main: rules = load_rules(rules_paths), and the check of its result
MainLoadRules(compiled) ==
    /\ pc = "load_rules"
    /\ LET r   == LoadRules(rules_paths, compiled)
           log == [i \in DOMAIN r.log |-> [kind |-> r.log[i]]]
       IN  /\ rules' = r.rules
           /\ IF r.exit # NoExit
              THEN Exit(r.exit, log)
              ELSE IF r.rules = None
              THEN Exit(1, log \o <<[kind |-> "error_failed_to_load"]>>)
              ELSE /\ pc' = "scan"
                   /\ out' = out \o log
                   /\ UNCHANGED exit_code
    /\ UNCHANGED <<args, bundled_rules, walk, manifest, rules_paths, files, idx, scanned,
                   total_files, yara_results, calls, high_count, probe>>

\* main calls a scan function; the function runs up to its loop
MainScanBegin ==
    /\ pc = "scan"
    /\ yara_results' = EmptyResults
    /\ idx' = 0
    /\ scanned' = 0
    /\ IF args.input
       THEN /\ files' = ManifestEntries(manifest)
            /\ total_files' = TotalFiles(manifest)
            /\ pc' = "scan_json"
       ELSE /\ files' = CollectFiles(walk, args.include)
            /\ total_files' = Len(files')
            /\ pc' = "scan_dir"
    /\ out' = Append(out, [kind |-> "scanning", total |-> total_files'])
    /\ UNCHANGED <<args, bundled_rules, walk, manifest, rules_paths, rules, calls,
                   high_count, exit_code, probe>>

\* scan_files_from_json: one iteration of the inner loop
ScanJsonStep(outcome) ==
    /\ pc = "scan_json"
    /\ idx < Len(files)
    /\ LET entry     == files[idx + 1]
           file_path == Get(entry.executable, "file", <<>>)
           full_path == FullPath(file_path)
           sf        == ScanFile(outcome)
       IN  /\ idx' = idx + 1
           /\ IF ~Exists(full_path)
              THEN /\ out' = Append(out, [kind |-> "warn_file_not_found"])
                   /\ UNCHANGED <<scanned, calls, yara_results, pc, exit_code>>
              ELSE /\ scanned' = scanned + 1
                   /\ calls' = Append(calls, [target |-> idx + 1, outcome |-> outcome,
                                              matches |-> sf.matches])
                   /\ IF sf.raised
                      THEN /\ pc' = "exited"
                           /\ exit_code' = 1
                           /\ out' = out \o Progress(scanned', total_files)
                                         \o <<[kind |-> "traceback"]>>
                           /\ UNCHANGED yara_results
                      ELSE /\ yara_results' = AccumulateJson(yara_results, entry, sf.matches)
                           /\ out' = out \o Progress(scanned', total_files) \o Warning(sf)
                                         \o MatchLines(sf.matches)
                           /\ UNCHANGED <<pc, exit_code>>
    /\ UNCHANGED <<args, bundled_rules, walk, manifest, rules_paths, rules, files,
                   total_files, high_count, probe>>

\* scan_directory: one iteration of the loop
ScanDirStep(outcome) ==
    /\ pc = "scan_dir"
    /\ idx < Len(files)
    /\ LET file_path == files[idx + 1]
           sf        == ScanFile(outcome)
       IN  /\ idx' = idx + 1
           /\ calls' = Append(calls, [target |-> idx + 1, outcome |-> outcome,
                                      matches |-> sf.matches])
           /\ IF sf.raised
              THEN /\ pc' = "exited"
                   /\ exit_code' = 1
                   /\ out' = out \o Progress(idx + 1, Len(files)) \o <<[kind |-> "traceback"]>>
                   /\ UNCHANGED yara_results
              ELSE /\ yara_results' = AccumulateDir(yara_results, file_path, sf.matches)
                   /\ out' = out \o Progress(idx + 1, Len(files)) \o Warning(sf)
                                 \o MatchLines(sf.matches)
                   /\ UNCHANGED <<pc, exit_code>>
    /\ UNCHANGED <<args, bundled_rules, walk, manifest, rules_paths, rules, files, scanned,
                   total_files, high_count, probe>>

\* the scan function has returned: main prints the summary
MainSummary ==
    /\ pc \in {"scan_json", "scan_dir"}
    /\ idx = Len(files)
    /\ out' = Append(out, [kind |-> "summary",
                           scanned |-> yara_results.totalScanned,
                           with_matches |-> yara_results.filesWithMatches,
                           matches |-> yara_results.totalMatches])
    /\ pc' = "annotations"
    /\ UNCHANGED <<args, bundled_rules, walk, manifest, rules_paths, rules, files, idx,
                   scanned, total_files, yara_results, calls, high_count, exit_code, probe>>

\* main: the GitHub annotations, when asked for
MainAnnotations ==
    /\ pc = "annotations"
    /\ IF args.github_annotations
       THEN LET e == EmitGithubAnnotations(yara_results)
            IN  IF e.raised
                THEN /\ Exit(1, e.printed \o <<[kind |-> "traceback"]>>)
                     /\ UNCHANGED high_count
                ELSE /\ high_count' = e.count
                     /\ out' = out \o e.printed
                                   \o <<[kind |-> "yara_matches", n |-> yara_results.filesWithMatches],
                                        [kind |-> "yara_high_severity", n |-> e.count]>>
                     /\ pc' = "output"
                     /\ UNCHANGED exit_code
       ELSE /\ pc' = "output"
            /\ UNCHANGED <<out, high_count, exit_code>>
    /\ UNCHANGED <<args, bundled_rules, walk, manifest, rules_paths, rules, files, idx,
                   scanned, total_files, yara_results, calls, probe>>

\* main: the JSON report, then the exit
MainOutput ==
    /\ pc = "output"
    /\ Exit(0, IF args.output
               THEN <<[kind |-> "json_file", report |-> yara_results],
                      [kind |-> "results_written"]>>
               ELSE <<[kind |-> "json_stdout", report |-> yara_results]>>)
    /\ UNCHANGED <<args, bundled_rules, walk, manifest, rules_paths, rules, files, idx,
                   scanned, total_files, yara_results, calls, high_count, probe>>

----------------------------------------------------------------------------
(* What the environment can be: the engine's answers, the rule sources on   *)
(* disk, the scan directory, the manifest, the command line.                *)

RawMatch(rule, meta, strings) ==
    [rule |-> rule, namespace |-> "ns", tags |-> <<"t">>, meta |-> meta, strings |-> strings]

MatchHigh   == RawMatch("r_high", [severity |-> "high", description |-> "d", category |-> "c"],
                        <<StringMatch("$a", <<7>>)>>)
MatchMedium == RawMatch("r_medium", [severity |-> "medium"], <<>>)
MatchPlain  == RawMatch("r_plain", <<>>, <<>>)
MatchNonStr == RawMatch("r_int", [severity |-> NonStr], <<>>)
MatchLegacy == RawMatch("r_old", <<>>, <<LegacyTuple("$a")>>)

\* n matches: n - 1 times MatchHigh, then last
ResultsOf(n, last) == [i \in 1..n |-> IF i = n THEN last ELSE MatchHigh]

Raises == {[raise |-> r, results |-> <<>>] : r \in {"TimeoutError", "Error", "Exception"}}
Returns(lasts) ==
    {[raise |-> "none", results |-> ResultsOf(n, last)] : n \in 0..MaxMatches, last \in lasts}

EngineOutcomes == Raises \cup Returns({MatchHigh, MatchNonStr, MatchLegacy})
MainOutcomes == {[raise |-> "TimeoutError", results |-> <<>>]}
                \cup Returns({MatchHigh, MatchMedium, MatchPlain, MatchNonStr})
LeanOutcomes == {[raise |-> "none", results |-> <<>>],
                 [raise |-> "none", results |-> <<MatchHigh>>]}

\* a match with n strings; which of them have instances depends on shape
StringsOf(n, shape) ==
    [i \in 1..n |->
        StringMatch(i, CASE shape = "all"  -> <<10 * i, 10 * i + 1>>
                         [] shape = "none" -> <<>>
                         [] OTHER          -> IF i % 2 = 0 THEN <<>> ELSE <<i>>)]
StringShapes == {"all", "none", "alternating"}
ProbeMatches == {RawMatch("r", <<>>, StringsOf(n, shape)) : n \in 0..MaxStrings, shape \in StringShapes}
ProbeOutcomes ==
    {[raise |-> "none", results |-> <<m>>] : m \in ProbeMatches}
    \cup {[raise |-> "none", results |-> <<m1, m2>>] :
             m1 \in {m \in ProbeMatches : Len(m.strings) >= StringsLimit}, m2 \in ProbeMatches}
    \cup Raises

\* rule sources
DirListings ==
    {<<>>,
     << <<"a", ".yar">> >>,
     << <<"a", ".yara">> >>,
     << <<"a", ".yar">>, <<"a", ".yara">> >>,
     << <<"a", ".yara">>, <<"a", ".yar">> >>,
     << <<"b", ".yar">>, <<"a", ".yar">> >>,
     << <<"b", ".yara">>, <<"a", ".txt">> >>}
UserRulePaths(i) ==
    {MissingPath}
    \cup {FilePath(RuleFile(i, "a", ".yar")), FilePath(RuleFile(i, "b", ".yara")),
          FilePath(RuleFile(i, "a", ".txt"))}
    \cup {DirPath(i, names) : names \in DirListings}
UserRules(n) == {r \in [1..n -> UNION {UserRulePaths(i) : i \in 1..n}] :
                    \A i \in 1..n : r[i] \in UserRulePaths(i)}
BundledDirs == {MissingPath, DirPath(0, <<>>), DirPath(0, << <<"a", ".yar">> >>),
                DirPath(0, << <<"a", ".yara">>, <<"b", ".yar">> >>)}
BundledDefault == DirPath(0, << <<"a", ".yar">> >>)

\* the scan directory
Tree == {TreeDir} \cup {TreeFile(i) : i \in 1..MaxFiles}
WalkOrders == {w \in [1..Cardinality(Tree) -> Tree] : \A i, j \in DOMAIN w : i # j => w[i] # w[j]}
DefaultWalk == [i \in 1..(MaxFiles + 1) |-> IF i = 2 THEN TreeDir
                                              ELSE IF i = 1 THEN TreeFile(1) ELSE TreeFile(i - 1)]
Patterns == {"*", "*.js", "*.html"}
Includes == UNION {[1..n -> Patterns] : n \in 0..MaxPatterns}

\* manifests
EntryFiles == {<<"node_modules", "x">>, <<"y">>, <<"gone">>}
Executable(f) == [file |-> f]
SplitManifest(es, k) ==
    << IF k = 0 THEN [package |-> "p1"]
       ELSE [package |-> "p1", files |-> [i \in 1..k |-> Executable(es[i])]],
       [files |-> [i \in 1..(Len(es) - k) |-> Executable(es[k + i])]] >>
Manifests(max) ==
    {SplitManifest(es, k) : <<es, k>> \in
        UNION {[1..n -> EntryFiles] \X (0..n) : n \in 0..max}}
LongManifests ==
    {<< [package |-> "p", files |-> [i \in 1..n |-> Executable(IF i = j THEN <<"gone">> ELSE <<"y">>)]] >> :
        <<n, j>> \in UNION {{n} \X (0..n) : n \in 1..MaxLongEntries}}
DefaultManifest == SplitManifest([i \in 1..MaxEntries |-> IF i = 2 THEN <<"gone">> ELSE <<"y">>], 1)

Args(input, dir, include, rls, nb, gh, output) ==
    [input |-> input, dir |-> dir, include |-> include, rules |-> rls,
     no_bundled_rules |-> nb, github_annotations |-> gh, output |-> output]

\* the locals before main has assigned them
Fresh ==
    /\ rules_paths = <<>>
    /\ rules = None
    /\ files = <<>>
    /\ idx = 0
    /\ scanned = 0
    /\ total_files = 0
    /\ yara_results = EmptyResults
    /\ calls = <<>>
    /\ out = <<>>
    /\ high_count = 0
    /\ exit_code = NoExit
    /\ probe = [fn |-> "none"]

\* main at its first statement
Init ==
    /\ pc = "start"
    /\ \E mode \in {<<TRUE, FALSE>>, <<FALSE, TRUE>>, <<TRUE, TRUE>>, <<FALSE, FALSE>>} :
       \E rc \in {<<FALSE, <<>> >>, <<TRUE, <<>> >>, <<TRUE, <<MissingPath>> >>,
                  <<TRUE, <<FilePath(RuleFile(1, "a", ".yar"))>> >>} :
       \E gh \in BOOLEAN, output \in BOOLEAN :
          args = Args(mode[1], mode[2], IF mode[1] THEN <<>> ELSE <<"*.js", "*">>,
                      rc[2], rc[1], gh, output)
    /\ bundled_rules = BundledDefault
    /\ walk = DefaultWalk
    /\ manifest = DefaultManifest
    /\ Fresh

Next ==
    \/ MainCollect
    \/ \E compiled \in {"ok", "SyntaxError"} : MainLoadRules(compiled)
    \/ MainScanBegin
    \/ \E outcome \in MainOutcomes : ScanJsonStep(outcome)
    \/ \E outcome \in MainOutcomes : ScanDirStep(outcome)
    \/ MainSummary
    \/ MainAnnotations
    \/ MainOutput

Spec == Init /\ [][Next]_vars

\* a scan function is called with a compiled rule set
ScanCalled(a, w, m) ==
    /\ pc = "scan"
    /\ args = a
    /\ bundled_rules = BundledDefault
    /\ walk = w
    /\ manifest = m
    /\ rules_paths = CollectRulePaths(a, BundledDefault)
    /\ rules = LoadRules(rules_paths, "ok").rules
    /\ files = <<>>
    /\ idx = 0
    /\ scanned = 0
    /\ total_files = 0
    /\ yara_results = EmptyResults
    /\ calls = <<>>
    /\ out = <<[kind |-> "loading_rule_files"]>>
    /\ high_count = 0
    /\ exit_code = NoExit
    /\ probe = [fn |-> "none"]

\* either scan function, over every answer of the engine
InitScan ==
    \/ \E m \in Manifests(MaxEntries) :
          ScanCalled(Args(TRUE, FALSE, <<>>, <<>>, FALSE, FALSE, FALSE), DefaultWalk, m)
    \/ \E inc \in {<<>>, <<"*.js", "*">>} :
          ScanCalled(Args(FALSE, TRUE, inc, <<>>, FALSE, FALSE, FALSE), DefaultWalk, DefaultManifest)

NextScan ==
    \/ MainScanBegin
    \/ \E outcome \in EngineOutcomes : ScanJsonStep(outcome)
    \/ \E outcome \in EngineOutcomes : ScanDirStep(outcome)

SpecScan == InitScan /\ [][NextScan]_vars

\* scan_directory, over every walk order and every list of include patterns
InitDir ==
    \E w \in WalkOrders, inc \in Includes :
        ScanCalled(Args(FALSE, TRUE, inc, <<>>, FALSE, FALSE, FALSE), w, DefaultManifest)

NextDir ==
    \/ MainScanBegin
    \/ \E outcome \in LeanOutcomes : ScanDirStep(outcome)

SpecDir == InitDir /\ [][NextDir]_vars

\* scan_files_from_json, over manifests with and without missing files
InitJson ==
    \E m \in Manifests(MaxEntries + 1) \cup LongManifests :
        ScanCalled(Args(TRUE, FALSE, <<>>, <<>>, FALSE, FALSE, FALSE), DefaultWalk, m)

NextJson ==
    \/ MainScanBegin
    \/ \E outcome \in LeanOutcomes : ScanJsonStep(outcome)

SpecJson == InitJson /\ [][NextJson]_vars

\* main up to the loaded rules, over the rule sources on disk
InitRules ==
    /\ pc = "start"
    /\ \E n \in 0..MaxRulePaths : \E rls \in UserRules(n) : \E nb \in BOOLEAN :
          args = Args(FALSE, TRUE, <<>>, rls, nb, FALSE, FALSE)
    /\ bundled_rules \in BundledDirs
    /\ walk = DefaultWalk
    /\ manifest = DefaultManifest
    /\ Fresh

NextRules ==
    \/ MainCollect
    \/ \E compiled \in {"ok", "SyntaxError"} : MainLoadRules(compiled)

SpecRules == InitRules /\ [][NextRules]_vars

\* scan_file on its own, over engine matches with many strings
InitScanFile ==
    /\ pc = "idle"
    /\ args = Args(FALSE, TRUE, <<>>, <<>>, FALSE, FALSE, FALSE)
    /\ bundled_rules = BundledDefault
    /\ walk = DefaultWalk
    /\ manifest = DefaultManifest
    /\ Fresh

CallScanFile(outcome) ==
    /\ pc = "idle"
    /\ probe' = [fn |-> "scan_file", outcome |-> outcome, result |-> ScanFile(outcome)]
    /\ UNCHANGED <<args, bundled_rules, walk, manifest, pc, rules_paths, rules, files, idx,
                   scanned, total_files, yara_results, calls, out, high_count, exit_code>>

NextScanFile == \E outcome \in ProbeOutcomes : CallScanFile(outcome)

SpecScanFile == InitScanFile /\ [][NextScanFile]_vars

----------------------------------------------------------------------------
(* The claims *)

Printed(kind) == \E i \in DOMAIN out : out[i].kind = kind
LoopDone == pc \in {"scan_json", "scan_dir"} /\ idx = Len(files)
Failed(call) == call.outcome.raise # "none"
    \/ \E i \in DOMAIN call.outcome.results : call.outcome.results[i] = MatchLegacy

\* the manifest entries whose file is on disk / every collected file: the
\* positions in files that are to be handed to the matcher
Scannable ==
    IF args.input
    THEN {i \in DOMAIN files : FullPath(files[i].executable.file) \in OnDisk}
    ELSE DOMAIN files

\* C1: at every point of a scan (after any prefix of the targets, and in the
\* returned report) filesWithMatches <= totalScanned and
\* totalMatches >= filesWithMatches, whatever the engine answers.
C1_CountersOrdered ==
    /\ yara_results.filesWithMatches <= yara_results.totalScanned
    /\ yara_results.totalMatches >= yara_results.filesWithMatches

C1_Witness ==
    /\ LoopDone
    /\ yara_results.filesWithMatches >= 1
    /\ yara_results.totalMatches > yara_results.filesWithMatches
    /\ yara_results.totalScanned > yara_results.filesWithMatches
    /\ \E i \in DOMAIN calls : Failed(calls[i])

\* C2: a target whose match raises (timeout, engine error, any other
\* exception) yields a warning and an empty or partial match list, never an
\* exit; the target is still counted in totalScanned and every remaining
\* target is still matched.
C2_FailureDoesNotAbort ==
    /\ pc # "exited"
    /\ exit_code = NoExit
    /\ yara_results.totalScanned = Len(calls)
    /\ \A i \in DOMAIN calls :
          Failed(calls[i]) =>
             /\ Len(calls[i].matches) < Len(calls[i].outcome.results)
                   \/ calls[i].matches = <<>>
             /\ \A k \in DOMAIN calls[i].matches :
                   calls[i].matches[k].rule = calls[i].outcome.results[k].rule
    /\ Cardinality({i \in DOMAIN out : out[i].kind \in
                        {"warn_timeout", "warn_yara_error", "warn_error_scanning"}})
          = Cardinality({i \in DOMAIN calls : Failed(calls[i])})
    /\ LoopDone => {calls[i].target : i \in DOMAIN calls} = Scannable

C2_Witness ==
    /\ LoopDone
    /\ Len(calls) >= 2
    /\ calls[1].outcome.raise # "none"
    /\ calls[2].matches # <<>>

\* the file a result names, for the target at position t of files
ResultFile(t) == IF args.input THEN files[t].executable.file ELSE files[t].id

C3_Counters ==
    /\ yara_results.totalScanned = Len(calls)
    /\ yara_results.totalMatches = SumLen([i \in DOMAIN calls |-> calls[i].matches])
    /\ yara_results.filesWithMatches =
          Cardinality({i \in DOMAIN calls : calls[i].matches # <<>>})
    /\ \A i, j \in DOMAIN calls : i < j => calls[i].target < calls[j].target

\* C3 as stated: the returned report has the three counters and, in results,
\* one per-target result for every scanned target, in enumeration order, each
\* carrying that target's matches.
C3_ResultPerTarget ==
    LoopDone =>
       /\ C3_Counters
       /\ Len(yara_results.results) = Len(calls)
       /\ \A i \in DOMAIN calls :
             /\ yara_results.results[i].file = ResultFile(calls[i].target)
             /\ yara_results.results[i].matches = calls[i].matches

\* C3 as amended: results holds, in enumeration order, exactly the scanned
\* targets with at least one match, each carrying its matches.
C3_ResultPerMatchedTarget ==
    LoopDone =>
       LET matched == SelectSeq(calls, LAMBDA c : c.matches # <<>>)
       IN  /\ C3_Counters
           /\ Len(yara_results.results) = Len(matched)
           /\ \A k \in DOMAIN matched :
                 /\ yara_results.results[k].file = ResultFile(matched[k].target)
                 /\ yara_results.results[k].matches = matched[k].matches

C3_Witness ==
    /\ LoopDone
    /\ Len(calls) >= 2
    /\ calls[1].matches = <<>>
    /\ Len(calls[2].matches) >= 2
    /\ Len(yara_results.results) = 1

\* the rule files load_rules meets, in the order it meets them
RECURSIVE ProcessingOrder(_)
ProcessingOrder(paths) ==
    IF paths = <<>> THEN <<>>
    ELSE LET p == Head(paths)
             here == IF p.kind = "file"
                     THEN (IF p.file.suffix \in {".yar", ".yara"} THEN <<p.file>> ELSE <<>>)
                     ELSE IF p.kind = "dir"
                     THEN SelectSeq(p.entries, LAMBDA f : f.suffix = ".yar")
                          \o SelectSeq(p.entries, LAMBDA f : f.suffix = ".yara")
                     ELSE <<>>
         IN  here \o ProcessingOrder(Tail(paths))

\* C4: the mapping handed to the compiler is keyed by file stem and holds,
\* for every stem, the last rule file with that stem in processing order; the
\* bundled directory is processed first, so a user rule file always replaces
\* a bundled one with the same base name.
C4_LastWinsUserShadowsBundled ==
    pc = "scan" =>
       LET order == ProcessingOrder(rules_paths)
           user  == ProcessingOrder(args.rules)
           m     == rules.filepaths
       IN  /\ DOMAIN m = {order[i].stem : i \in DOMAIN order}
           /\ \A i \in DOMAIN order :
                 (\A j \in DOMAIN order : j > i => order[j].stem # order[i].stem)
                    => m[order[i].stem] = order[i]
           /\ \A i \in DOMAIN user : m[user[i].stem].dir # 0
           /\ ~args.no_bundled_rules /\ bundled_rules.kind # "missing"
                 => rules_paths = <<bundled_rules>> \o args.rules

C4_Witness ==
    /\ pc = "scan"
    /\ ~args.no_bundled_rules
    /\ bundled_rules.kind = "dir"
    /\ \E i \in DOMAIN bundled_rules.entries : bundled_rules.entries[i].stem = "a"
    /\ \E i \in DOMAIN bundled_rules.entries : bundled_rules.entries[i].stem = "b"
    /\ Len(args.rules) = 2
    /\ args.rules[1] = FilePath(RuleFile(1, "a", ".yar"))
    /\ args.rules[2].kind = "dir"
    /\ rules.filepaths["a"].dir = 2
    /\ rules.filepaths["b"].dir = 0
    /\ \E i \in DOMAIN args.rules[2].entries : args.rules[2].entries[i].stem = "a"

ReportKinds == {"summary", "annotation", "yara_matches", "yara_high_severity",
                "json_file", "json_stdout", "results_written"}
ScanKinds == {"scanning", "progress", "match_line", "warn_file_not_found",
              "warn_timeout", "warn_yara_error", "warn_error_scanning"}
LoadKinds == {"loading_rule_files", "warn_no_rules_found", "error_compiling"}

\* C5: the run is a linear pipeline: no target is matched unless a rule set
\* was compiled from a non-empty mapping (no rule paths, no rule files or a
\* compile error exit with status 1 before any scan), and the summary, the
\* annotations and the JSON report come only after every target is processed.
C5_LinearPipeline ==
    /\ (calls # <<>> \/ Printed("scanning") \/ pc \in {"scan", "scan_json", "scan_dir"})
          => /\ rules # None
             /\ DOMAIN rules.filepaths # {}
    /\ (Printed("error_no_rules_specified") \/ Printed("warn_no_rules_found")
           \/ Printed("error_compiling"))
          => /\ pc = "exited"
             /\ exit_code = 1
             /\ calls = <<>>
             /\ ~Printed("scanning")
    /\ (\E k \in ReportKinds : Printed(k))
          => /\ idx = Len(files)
             /\ {calls[i].target : i \in DOMAIN calls} = Scannable
    /\ \A i, j \in DOMAIN out :
          /\ (out[i].kind \in ReportKinds /\ out[j].kind \in ScanKinds \cup LoadKinds) => j < i
          /\ (out[i].kind \in ScanKinds /\ out[j].kind \in LoadKinds) => j < i

C5_Witness ==
    /\ pc = "exited"
    /\ exit_code = 0
    /\ Len(calls) >= 2
    /\ Printed("annotation")
    /\ Printed("json_stdout")

\* the severity the report records for a match
SeverityOf(match) == Get(Get(match, "meta", <<>>), "severity", "unknown")

\* C6: emit_github_annotations emits one annotation per match of the report,
\* in report order, at level error for critical/high, warning for medium and
\* notice for any other or missing severity, and returns the number of
\* critical/high matches.
C6_OneAnnotationPerMatch ==
    (args.github_annotations /\ Printed("summary") /\ pc \in {"output", "exited"}) =>
       LET pairs == MatchPairs(yara_results.results)
           ann   == SelectSeq(out, LAMBDA line : line.kind = "annotation")
       IN  /\ Len(ann) = Len(pairs)
           /\ \A i \in DOMAIN pairs :
                 ann[i].level =
                    (LET sev == SeverityOf(pairs[i].match)
                     IN  IF sev \in {"critical", "high"} THEN "error"
                         ELSE IF sev = "medium" THEN "warning" ELSE "notice")
           /\ high_count = Cardinality({i \in DOMAIN pairs :
                                          SeverityOf(pairs[i].match) \in {"critical", "high"}})

\* C10: once the scan has completed main ends with exit status 0, whatever
\* was found; exit status 1 is produced only before scanning.
C10_ExitZeroAfterScan ==
    /\ (pc = "exited" /\ Printed("summary")) => exit_code = 0
    /\ exit_code = 1 => ~Printed("scanning")

\* C7: a match record holds min(10, n) (identifier, offset) pairs for an
\* engine match with n matched strings: the first ones in the engine's order,
\* each with the offset of the string's first instance, 0 when it has none.
C7_FirstTenStrings ==
    probe.fn = "scan_file" /\ probe.outcome.raise = "none" =>
       LET raw == probe.outcome.results
           got == probe.result.matches
       IN  /\ Len(got) = Len(raw)
           /\ \A i \in DOMAIN raw :
                 /\ Len(got[i].strings) <= 10
                 /\ Len(got[i].strings) = Min(10, Len(raw[i].strings))
                 /\ \A k \in DOMAIN got[i].strings :
                       /\ got[i].strings[k].identifier = raw[i].strings[k].identifier
                       /\ got[i].strings[k].offset =
                             (IF Len(raw[i].strings[k].instances) = 0 THEN 0
                              ELSE Head(raw[i].strings[k].instances))

C7_Witness ==
    /\ probe.fn = "scan_file"
    /\ probe.outcome.raise = "none"
    /\ Len(probe.outcome.results) = 2
    /\ Len(probe.outcome.results[2].strings) > 10
    /\ Len(probe.result.matches[2].strings) = 10
    /\ probe.result.matches[2].strings[2].offset = 0
    /\ probe.result.matches[2].strings[3].offset = 3

\* what the include patterns yield, pattern after pattern
Yielded == Concat([k \in DOMAIN args.include |-> RGlob(walk, args.include[k])])
FirstAppearance(f) == CHOOSE k \in DOMAIN Yielded :
                         Yielded[k] = f /\ \A j \in 1..(k - 1) : Yielded[j] # f

\* C8: with include patterns, a file matched by several patterns is scanned
\* once, the targets are in the order of their first appearance across the
\* patterns, and only regular files are scanned: totalScanned is the number
\* of distinct regular files matched.
C8_DistinctRegularFilesOnce ==
    (pc = "scan_dir" /\ args.include # <<>>) =>
       LET wanted == {p \in {walk[i] : i \in DOMAIN walk} :
                         p.is_file /\ \E k \in DOMAIN args.include :
                                         PatternMatches(args.include[k], p)}
       IN  /\ \A i, j \in DOMAIN files : i # j => files[i] # files[j]
           /\ \A i \in DOMAIN files : files[i].is_file
           /\ {files[i] : i \in DOMAIN files} = wanted
           /\ \A i, j \in DOMAIN files :
                 i < j => FirstAppearance(files[i]) < FirstAppearance(files[j])
           /\ \A i \in DOMAIN calls : calls[i].target = i
           /\ LoopDone => yara_results.totalScanned = Cardinality(wanted)

C8_Witness ==
    /\ LoopDone
    /\ pc = "scan_dir"
    /\ Len(args.include) = 2
    /\ args.include[1] # args.include[2]
    /\ yara_results.totalScanned = 2
    /\ Len(Yielded) > 3
    /\ FirstAppearance(files[2]) > 2
    /\ files[1].id > files[2].id

OnDiskEntry(i) == FullPath(files[i].executable.file) \in OnDisk

\* C9: a manifest entry whose resolved path does not exist is skipped with a
\* warning, neither matched nor counted: totalScanned is the number of
\* entries whose file exists and at most the announced total, the progress
\* counter never exceeds that total, and the 'scanned == total' progress line
\* is printed only when no manifest file is missing.
C9_MissingSkipped ==
    pc = "scan_json" =>
       LET seen == {i \in 1..idx : OnDiskEntry(i)}
       IN  /\ total_files = Len(files)
           /\ scanned = Cardinality(seen)
           /\ scanned <= total_files
           /\ yara_results.totalScanned = Cardinality(seen)
           /\ yara_results.totalScanned <= total_files
           /\ {calls[i].target : i \in DOMAIN calls} = seen
           /\ Len(calls) = Cardinality(seen)
           /\ Cardinality({i \in DOMAIN out : out[i].kind = "warn_file_not_found"})
                 = idx - Cardinality(seen)
           /\ \A i \in DOMAIN out :
                 out[i].kind = "progress" =>
                    /\ out[i].n <= out[i].total
                    /\ out[i].total = total_files
                    /\ out[i].n = total_files => \A k \in DOMAIN files : OnDiskEntry(k)

C9_Witness ==
    /\ pc = "scan_json"
    /\ LoopDone
    /\ total_files = 11
    /\ scanned = 10
    /\ \E i \in DOMAIN out : out[i].kind = "progress" /\ out[i].n = 10
    /\ Printed("warn_file_not_found")
    /\ \E i \in DOMAIN calls : calls[i].matches # <<>>

====
